---- MODULE Spec2Model ----
(***************************************************************************)
(* Model of Python_Project_Restructuring_Script.py: the procedure          *)
(* restructure_project run against a working directory.                    *)
(*                                                                         *)
(* Text is a sequence of one-character strings, so that str.index, the     *)
(* `in` test, slicing and str.strip are computed on characters exactly as  *)
(* Python computes them.  Indices and slice bounds are Python's (0-based,  *)
(* end exclusive).  The working directory is a map from the paths the      *)
(* script names to a directory entry.                                      *)
(***************************************************************************)
EXTENDS Integers, Sequences, FiniteSets, TLC

VARIABLES
    fs,         \* the working directory: path -> entry
    status,     \* "idle", "running", "done" (returned) or "failed" (uncaught exception)
    pc,         \* the statement group restructure_project is at
    i,          \* the position inside that group (loop index, 1-based)
    content,    \* the local `content` of line 31
    stdout,     \* what the current process has printed
    run,        \* number of invocations of the script so far
    restores,   \* number of source files the user has put back so far
    log,        \* history: the statements completed by the current run, in order
    fsAtStart,  \* history: fs when the current run started
    prev,       \* history: how the previous run ended
    between     \* history: a source file was put back since the last run ended

vars == <<fs, status, pc, i, content, stdout, run, restores, log, fsAtStart, prev, between>>

\* Number of times the script is invoked in one behaviour.
MaxRuns == 2

\* Number of times a missing source file is put back between runs.
MaxRestores == 1

-----------------------------------------------------------------------------
(* Text constants of the script *)

\* the literal 'class' of lines 42-43
kw_class ==
    <<"c","l","a","s","s">>

SatelliteInputs ==
    <<"S","a","t","e","l","l","i","t","e","I","n","p","u","t","s">>

AntennaInputs ==
    <<"A","n","t","e","n","n","a","I","n","p","u","t","s">>

ReceiverStationInputs ==
    <<"R","e","c","e","i","v","e","r","S","t","a","t","i","o","n","I","n","p","u","t","s">>

LinkParameters ==
    <<"L","i","n","k","P","a","r","a","m","e","t","e","r","s">>

anchor_calculator ==
    <<"c","l","a","s","s"," ","S","a","t","e","l","l","i","t","e">>

anchor_test ==
    <<"c","l","a","s","s"," ","T","e","s","t","L","i","n","k","B","u","d","g","e","t","C","a","l","c","u","l","a","t","o","r">>

input_data_content ==
    <<"f","r","o","m"," ",".","s","a","t","e","l","l","i","t","e",".","i","n","p","u","t","s"," ","i","m","p","o","r","t"," ","S","a","t","e","l","l","i","t","e","I","n","p","u","t","s","\n">> \o
    <<"f","r","o","m"," ",".","a","n","t","e","n","n","a",".","i","n","p","u","t","s"," ","i","m","p","o","r","t"," ","A","n","t","e","n","n","a","I","n","p","u","t","s","\n">> \o
    <<"f","r","o","m"," ",".","r","e","c","e","i","v","e","r",".","i","n","p","u","t","s"," ","i","m","p","o","r","t"," ","R","e","c","e","i","v","e","r","S","t","a","t","i","o","n","I","n","p","u","t","s","\n">> \o
    <<"f","r","o","m"," ",".","l","i","n","k",".","p","a","r","a","m","e","t","e","r","s"," ","i","m","p","o","r","t"," ","L","i","n","k","P","a","r","a","m","e","t","e","r","s","\n">> \o
    <<"\n">> \o
    <<"c","l","a","s","s"," ","I","n","p","u","t","D","a","t","a",":","\n">> \o
    <<" "," "," "," ","d","e","f"," ","_","_","i","n","i","t","_","_","(","s","e","l","f",","," ","s","a","t","e","l","l","i","t","e",","," ","a","n","t","e","n","n","a",","," ","r","e","c","e","i","v","e","r","_","s","t","a","t","i","o","n",","," ","l","i","n","k","_","p","a","r","a","m","s",")",":","\n">> \o
    <<" "," "," "," "," "," "," "," ","s","e","l","f",".","s","a","t","e","l","l","i","t","e"," ","="," ","s","a","t","e","l","l","i","t","e","\n">> \o
    <<" "," "," "," "," "," "," "," ","s","e","l","f",".","a","n","t","e","n","n","a"," ","="," ","a","n","t","e","n","n","a","\n">> \o
    <<" "," "," "," "," "," "," "," ","s","e","l","f",".","r","e","c","e","i","v","e","r","_","s","t","a","t","i","o","n"," ","="," ","r","e","c","e","i","v","e","r","_","s","t","a","t","i","o","n","\n">> \o
    <<" "," "," "," "," "," "," "," ","s","e","l","f",".","l","i","n","k","_","p","a","r","a","m","s"," ","="," ","l","i","n","k","_","p","a","r","a","m","s","\n">>

updated_imports ==
    <<"f","r","o","m"," ",".","i","n","p","u","t","_","d","a","t","a"," ","i","m","p","o","r","t"," ","I","n","p","u","t","D","a","t","a","\n">> \o
    <<"f","r","o","m"," ",".","s","a","t","e","l","l","i","t","e",".","i","n","p","u","t","s"," ","i","m","p","o","r","t"," ","S","a","t","e","l","l","i","t","e","I","n","p","u","t","s","\n">> \o
    <<"f","r","o","m"," ",".","a","n","t","e","n","n","a",".","i","n","p","u","t","s"," ","i","m","p","o","r","t"," ","A","n","t","e","n","n","a","I","n","p","u","t","s","\n">> \o
    <<"f","r","o","m"," ",".","r","e","c","e","i","v","e","r",".","i","n","p","u","t","s"," ","i","m","p","o","r","t"," ","R","e","c","e","i","v","e","r","S","t","a","t","i","o","n","I","n","p","u","t","s","\n">> \o
    <<"f","r","o","m"," ",".","l","i","n","k",".","p","a","r","a","m","e","t","e","r","s"," ","i","m","p","o","r","t"," ","L","i","n","k","P","a","r","a","m","e","t","e","r","s","\n">>

updated_test_imports ==
    <<"i","m","p","o","r","t"," ","u","n","i","t","t","e","s","t","\n">> \o
    <<"f","r","o","m"," ","l","i","n","k","_","b","u","d","g","e","t","_","c","a","l","c","u","l","a","t","o","r",".","c","a","l","c","u","l","a","t","o","r"," ","i","m","p","o","r","t"," ","L","i","n","k","B","u","d","g","e","t","C","a","l","c","u","l","a","t","o","r","\n">> \o
    <<"f","r","o","m"," ","l","i","n","k","_","b","u","d","g","e","t","_","c","a","l","c","u","l","a","t","o","r",".","i","n","p","u","t","_","d","a","t","a"," ","i","m","p","o","r","t"," ","I","n","p","u","t","D","a","t","a","\n">> \o
    <<"f","r","o","m"," ","l","i","n","k","_","b","u","d","g","e","t","_","c","a","l","c","u","l","a","t","o","r",".","s","a","t","e","l","l","i","t","e",".","i","n","p","u","t","s"," ","i","m","p","o","r","t"," ","S","a","t","e","l","l","i","t","e","I","n","p","u","t","s","\n">> \o
    <<"f","r","o","m"," ","l","i","n","k","_","b","u","d","g","e","t","_","c","a","l","c","u","l","a","t","o","r",".","a","n","t","e","n","n","a",".","i","n","p","u","t","s"," ","i","m","p","o","r","t"," ","A","n","t","e","n","n","a","I","n","p","u","t","s","\n">> \o
    <<"f","r","o","m"," ","l","i","n","k","_","b","u","d","g","e","t","_","c","a","l","c","u","l","a","t","o","r",".","r","e","c","e","i","v","e","r",".","i","n","p","u","t","s"," ","i","m","p","o","r","t"," ","R","e","c","e","i","v","e","r","S","t","a","t","i","o","n","I","n","p","u","t","s","\n">> \o
    <<"f","r","o","m"," ","l","i","n","k","_","b","u","d","g","e","t","_","c","a","l","c","u","l","a","t","o","r",".","l","i","n","k",".","p","a","r","a","m","e","t","e","r","s"," ","i","m","p","o","r","t"," ","L","i","n","k","P","a","r","a","m","e","t","e","r","s","\n">>

success_message ==
    <<"P","r","o","j","e","c","t"," ","r","e","s","t","r","u","c","t","u","r","i","n","g"," ","c","o","m","p","l","e","t","e","d"," ","s","u","c","c","e","s","s","f","u","l","l","y","!">>

-----------------------------------------------------------------------------
(* Contents the three source files are drawn from *)

\* the four classes in mapping order, LinkParameters last (no further 'class')
buf_plain ==
    <<"i","m","p","o","r","t"," ","m","a","t","h","\n">> \o
    <<"\n">> \o
    <<"c","l","a","s","s"," ","S","a","t","e","l","l","i","t","e","I","n","p","u","t","s",":","\n">> \o
    <<" "," "," "," ","e","i","r","p"," ","="," ","1","\n">> \o
    <<"\n">> \o
    <<"c","l","a","s","s"," ","A","n","t","e","n","n","a","I","n","p","u","t","s",":","\n">> \o
    <<" "," "," "," ","g","a","i","n"," ","="," ","2","\n">> \o
    <<"\n">> \o
    <<"c","l","a","s","s"," ","R","e","c","e","i","v","e","r","S","t","a","t","i","o","n","I","n","p","u","t","s",":","\n">> \o
    <<" "," "," "," ","g","_","t"," ","="," ","3","\n">> \o
    <<"\n">> \o
    <<"c","l","a","s","s"," ","L","i","n","k","P","a","r","a","m","e","t","e","r","s",":","\n">> \o
    <<" "," "," "," ","f","r","e","q"," ","="," ","4","\n">> \o
    <<"\n">>

\* a comment holding the literal 'class' inside the first class body
buf_comment ==
    <<"c","l","a","s","s"," ","S","a","t","e","l","l","i","t","e","I","n","p","u","t","s",":","\n">> \o
    <<" "," "," "," ","#"," ","c","l","a","s","s"," ","o","f"," ","o","r","b","i","t","\n">> \o
    <<" "," "," "," ","e","i","r","p"," ","="," ","1","\n">> \o
    <<"c","l","a","s","s"," ","A","n","t","e","n","n","a","I","n","p","u","t","s",":","\n">> \o
    <<" "," "," "," ","g","a","i","n"," ","="," ","2","\n">> \o
    <<"c","l","a","s","s"," ","R","e","c","e","i","v","e","r","S","t","a","t","i","o","n","I","n","p","u","t","s",":","\n">> \o
    <<" "," "," "," ","g","_","t"," ","="," ","3","\n">> \o
    <<"c","l","a","s","s"," ","L","i","n","k","P","a","r","a","m","e","t","e","r","s",":","\n">> \o
    <<" "," "," "," ","f","r","e","q"," ","="," ","4","\n">> \o
    <<"c","l","a","s","s"," ","I","n","p","u","t","D","a","t","a",":","\n">> \o
    <<" "," "," "," ","p","a","s","s","\n">>

\* the second class of the mapping is missing
buf_no_antenna ==
    <<"c","l","a","s","s"," ","S","a","t","e","l","l","i","t","e","I","n","p","u","t","s",":","\n">> \o
    <<" "," "," "," ","e","i","r","p"," ","="," ","1","\n">> \o
    <<"c","l","a","s","s"," ","R","e","c","e","i","v","e","r","S","t","a","t","i","o","n","I","n","p","u","t","s",":","\n">> \o
    <<" "," "," "," ","g","_","t"," ","="," ","3","\n">> \o
    <<"c","l","a","s","s"," ","L","i","n","k","P","a","r","a","m","e","t","e","r","s",":","\n">> \o
    <<" "," "," "," ","f","r","e","q"," ","="," ","4","\n">>

\* the first class of the mapping is missing
buf_no_satellite ==
    <<"c","l","a","s","s"," ","A","n","t","e","n","n","a","I","n","p","u","t","s",":","\n">> \o
    <<" "," "," "," ","g","a","i","n"," ","="," ","2","\n">> \o
    <<"c","l","a","s","s"," ","L","i","n","k","P","a","r","a","m","e","t","e","r","s",":","\n">> \o
    <<" "," "," "," ","f","r","e","q"," ","="," ","4","\n">>

\* classes out of order, 'class' inside a word, a longer name sharing the prefix, trailing whitespace
buf_reordered ==
    <<"c","l","a","s","s"," ","L","i","n","k","P","a","r","a","m","e","t","e","r","s",":","\n">> \o
    <<" "," "," "," ","s","u","b","c","l","a","s","s"," ","="," ","0","\n">> \o
    <<"c","l","a","s","s"," ","R","e","c","e","i","v","e","r","S","t","a","t","i","o","n","I","n","p","u","t","s",":","\n">> \o
    <<" "," "," "," ","g","_","t"," ","="," ","3","\n">> \o
    <<"c","l","a","s","s"," ","A","n","t","e","n","n","a","I","n","p","u","t","s",":","\n">> \o
    <<" "," "," "," ","g","a","i","n"," ","="," ","2","\n">> \o
    <<"c","l","a","s","s"," ","S","a","t","e","l","l","i","t","e","I","n","p","u","t","s","B","a","s","e",":","\n">> \o
    <<" "," "," "," ","x"," ","="," ","0","\n">> \o
    <<"c","l","a","s","s"," ","S","a","t","e","l","l","i","t","e","I","n","p","u","t","s","(","S","a","t","e","l","l","i","t","e","I","n","p","u","t","s","B","a","s","e",")",":","\n">> \o
    <<" "," "," "," ","e","i","r","p"," ","="," ","1","\n">> \o
    <<" ","\t","\n">>

calc_plain ==
    <<"i","m","p","o","r","t"," ","m","a","t","h","\n">> \o
    <<"f","r","o","m"," ","i","n","p","u","t","_","d","a","t","a"," ","i","m","p","o","r","t"," ","*","\n">> \o
    <<"\n">> \o
    <<"c","l","a","s","s"," ","S","a","t","e","l","l","i","t","e",":","\n">> \o
    <<" "," "," "," ","p","a","s","s","\n">> \o
    <<"\n">> \o
    <<"c","l","a","s","s"," ","L","i","n","k","B","u","d","g","e","t","C","a","l","c","u","l","a","t","o","r",":","\n">> \o
    <<" "," "," "," ","p","a","s","s","\n">>

\* the anchor occurs twice, first inside a comment
calc_twice ==
    <<"#"," ","c","l","a","s","s"," ","S","a","t","e","l","l","i","t","e"," ","i","s"," ","b","e","l","o","w","\n">> \o
    <<"c","l","a","s","s"," ","S","a","t","e","l","l","i","t","e",":","\n">> \o
    <<" "," "," "," ","p","a","s","s","\n">> \o
    <<"c","l","a","s","s"," ","L","i","n","k","B","u","d","g","e","t","C","a","l","c","u","l","a","t","o","r",":","\n">> \o
    <<" "," "," "," ","p","a","s","s","\n">>

calc_no_anchor ==
    <<"i","m","p","o","r","t"," ","m","a","t","h","\n">> \o
    <<"\n">> \o
    <<"c","l","a","s","s"," ","L","i","n","k","B","u","d","g","e","t","C","a","l","c","u","l","a","t","o","r",":","\n">> \o
    <<" "," "," "," ","p","a","s","s","\n">>

test_plain ==
    <<"i","m","p","o","r","t"," ","u","n","i","t","t","e","s","t","\n">> \o
    <<"f","r","o","m"," ","l","i","n","k","_","b","u","d","g","e","t","_","d","e","m","o"," ","i","m","p","o","r","t"," ","*","\n">> \o
    <<"\n">> \o
    <<"c","l","a","s","s"," ","T","e","s","t","L","i","n","k","B","u","d","g","e","t","C","a","l","c","u","l","a","t","o","r","(","u","n","i","t","t","e","s","t",".","T","e","s","t","C","a","s","e",")",":","\n">> \o
    <<" "," "," "," ","p","a","s","s","\n">>

\* the anchor is at offset 0
test_bare ==
    <<"c","l","a","s","s"," ","T","e","s","t","L","i","n","k","B","u","d","g","e","t","C","a","l","c","u","l","a","t","o","r",":","\n">> \o
    <<" "," "," "," ","p","a","s","s","\n">>

test_no_anchor ==
    <<"i","m","p","o","r","t"," ","u","n","i","t","t","e","s","t","\n">> \o
    <<"\n">> \o
    <<"c","l","a","s","s"," ","T","e","s","t","D","e","m","o","(","u","n","i","t","t","e","s","t",".","T","e","s","t","C","a","s","e",")",":","\n">> \o
    <<" "," "," "," ","p","a","s","s","\n">>

buf_AB ==
    <<"c","l","a","s","s"," ","A","\n">> \o
    <<"b","o","d","y","_","a","\n">> \o
    <<"c","l","a","s","s"," ","B","\n">> \o
    <<"b","o","d","y","_","b","\n">>

buf_A_comment_B ==
    <<"c","l","a","s","s"," ","A","\n">> \o
    <<"b","o","d","y","_","a"," ","#"," ","c","l","a","s","s"," ","n","o","t","e","\n">> \o
    <<"m","o","r","e","_","a","\n">> \o
    <<"c","l","a","s","s"," ","B","\n">> \o
    <<"b","o","d","y","_","b","\n">>

InputDataFiles == {buf_plain, buf_comment, buf_no_antenna, buf_no_satellite, buf_reordered}

CalculatorFiles == {calc_plain, calc_twice, calc_no_anchor}

TestFiles == {test_plain, test_bare, test_no_anchor}

-----------------------------------------------------------------------------
(* Python string operations *)

\* s[a:b]
Slice(s, a, b) == SubSeq(s, a + 1, b)

\* s.startswith(sub, k): sub occurs in s at 0-based offset k
OccursAt(s, sub, k) ==
    /\ k >= 0
    /\ k + Len(sub) <= Len(s)
    /\ Slice(s, k, k + Len(sub)) = sub

\* s.index(sub, from): the lowest offset >= from where sub occurs; -1 stands
\* for the ValueError str.index raises when there is none.
index(s, sub, from) ==
    LET hits == {k \in from..(Len(s) - Len(sub)) : OccursAt(s, sub, k)}
    IN  IF hits = {} THEN -1 ELSE CHOOSE k \in hits : \A h \in hits : k <= h

\* sub in s
contains(s, sub) == index(s, sub, 0) # -1

\* the characters str.strip() removes that the texts here can hold: space,
\* newline, tab, carriage return, form feed
Whitespace == {" ", "\n", "\t", "\r", "\f"}

RECURSIVE lstrip(_)
lstrip(s) ==
    IF s # <<>> /\ Head(s) \in Whitespace THEN lstrip(Tail(s)) ELSE s

RECURSIVE rstrip(_)
rstrip(s) ==
    IF s # <<>> /\ s[Len(s)] \in Whitespace THEN rstrip(SubSeq(s, 1, Len(s) - 1)) ELSE s

\* s.strip()
strip(s) == rstrip(lstrip(s))

-----------------------------------------------------------------------------
(* The working directory *)

\* create_directory's arguments, lines 17-22
dirs ==
    << "link_budget_calculator",
       "link_budget_calculator/satellite",
       "link_budget_calculator/antenna",
       "link_budget_calculator/receiver",
       "link_budget_calculator/link",
       "tests" >>

\* move_file's arguments, lines 25-27
moves ==
    << [src |-> "link-budget-demo.py", dest |-> "link_budget_calculator/calculator.py"],
       [src |-> "input_data.py", dest |-> "link_budget_calculator/input_data.py"],
       [src |-> "test_link_budget_demo.py", dest |-> "tests/test_calculator.py"] >>

\* the dict of lines 34-39, in insertion order (the order items() iterates in)
class_files ==
    << [class_name |-> SatelliteInputs, file_path |-> "link_budget_calculator/satellite/inputs.py"],
       [class_name |-> AntennaInputs, file_path |-> "link_budget_calculator/antenna/inputs.py"],
       [class_name |-> ReceiverStationInputs, file_path |-> "link_budget_calculator/receiver/inputs.py"],
       [class_name |-> LinkParameters, file_path |-> "link_budget_calculator/link/parameters.py"] >>

\* the list of lines 63-69
init_files ==
    << "link_budget_calculator/__init__.py",
       "link_budget_calculator/satellite/__init__.py",
       "link_budget_calculator/antenna/__init__.py",
       "link_budget_calculator/receiver/__init__.py",
       "link_budget_calculator/link/__init__.py" >>

Range(seq) == {seq[k] : k \in DOMAIN seq}

DirPaths == Range(dirs)

SourcePaths == {moves[k].src : k \in DOMAIN moves}

TargetPaths ==
    {moves[k].dest : k \in DOMAIN moves}
        \cup {class_files[k].file_path : k \in DOMAIN class_files}
        \cup Range(init_files)

Paths == DirPaths \cup SourcePaths \cup TargetPaths

\* os.path.dirname; "." is the working directory itself
dirname(p) ==
    CASE p \in {"link_budget_calculator/satellite", "link_budget_calculator/antenna",
                "link_budget_calculator/receiver", "link_budget_calculator/link",
                "link_budget_calculator/calculator.py", "link_budget_calculator/input_data.py",
                "link_budget_calculator/__init__.py"} -> "link_budget_calculator"
      [] p \in {"link_budget_calculator/satellite/inputs.py",
                "link_budget_calculator/satellite/__init__.py"} -> "link_budget_calculator/satellite"
      [] p \in {"link_budget_calculator/antenna/inputs.py",
                "link_budget_calculator/antenna/__init__.py"} -> "link_budget_calculator/antenna"
      [] p \in {"link_budget_calculator/receiver/inputs.py",
                "link_budget_calculator/receiver/__init__.py"} -> "link_budget_calculator/receiver"
      [] p \in {"link_budget_calculator/link/parameters.py",
                "link_budget_calculator/link/__init__.py"} -> "link_budget_calculator/link"
      [] p = "tests/test_calculator.py" -> "tests"
      [] OTHER -> "."

Absent == [kind |-> "none", data |-> <<>>]

Directory == [kind |-> "dir", data |-> <<>>]

RegularFile(text) == [kind |-> "file", data |-> text]

\* os.path.exists
exists(f, p) == p = "." \/ f[p].kind # "none"

\* os.path.isdir
isdir(f, p) == p = "." \/ f[p].kind = "dir"

\* os.path.isfile
isfile(f, p) == p # "." /\ f[p].kind = "file"

\* The result of a call that may raise: ok = FALSE is the exception, and fs is
\* the working directory the call leaves behind.
Returned(f) == [ok |-> TRUE, fs |-> f]

Raised(f) == [ok |-> FALSE, fs |-> f]

\* os.mkdir: FileExistsError when anything is at p, FileNotFoundError or
\* NotADirectoryError when the parent is no directory
mkdir(f, p) ==
    IF exists(f, p) \/ ~isdir(f, dirname(p))
    THEN Raised(f)
    ELSE Returned([f EXCEPT ![p] = Directory])

\* os.makedirs(name), exist_ok = False: the missing parent is made first
RECURSIVE makedirs(_, _)
makedirs(f, p) ==
    LET head == dirname(p)
        made == IF ~exists(f, head) THEN makedirs(f, head) ELSE Returned(f)
    IN  IF made.ok THEN mkdir(made.fs, p) ELSE made

\* create_directory without the existence test of line 5
create_directory_unguarded(f, path) == makedirs(f, path)

\* create_directory testing os.path.isdir instead of os.path.exists
create_directory_isdir(f, path) ==
    IF ~isdir(f, path) THEN makedirs(f, path) ELSE Returned(f)

\* lines 4-6
create_directory(f, path) ==
    IF ~exists(f, path) THEN makedirs(f, path) ELSE Returned(f)

\* move_file copying instead of moving: src stays in place
move_file_copy(f, src, dest) ==
    IF isfile(f, src) /\ isdir(f, dirname(dest)) /\ ~isdir(f, dest)
    THEN Returned([f EXCEPT ![dest] = f[src]])
    ELSE Raised(f)

\* move_file opening dest for writing before it looks at src
move_file_truncating(f, src, dest) ==
    IF isfile(f, src) /\ isdir(f, dirname(dest)) /\ ~isdir(f, dest)
    THEN Returned([f EXCEPT ![dest] = f[src], ![src] = Absent])
    ELSE IF isdir(f, dirname(dest)) /\ ~isdir(f, dest)
    THEN Raised([f EXCEPT ![dest] = RegularFile(<<>>)])
    ELSE Raised(f)

\* lines 8-9, shutil.move of a regular file onto a path that holds no
\* directory: os.rename, and on its OSError copy2 (which opens src before
\* dest) followed by unlink.  Either way a missing src or a dest whose parent
\* is no directory raises with nothing written, and an existing dest file is
\* replaced.
move_file(f, src, dest) ==
    IF isfile(f, src) /\ isdir(f, dirname(dest)) /\ ~isdir(f, dest)
    THEN Returned([f EXCEPT ![dest] = f[src], ![src] = Absent])
    ELSE Raised(f)

\* create_file opening the file in append mode
create_file_append(f, path, text) ==
    IF isdir(f, dirname(path)) /\ ~isdir(f, path)
    THEN Returned([f EXCEPT ![path] = RegularFile(f[path].data \o text)])
    ELSE Raised(f)

\* lines 11-13, open(path, 'w') then write
create_file(f, path, text) ==
    IF isdir(f, dirname(path)) /\ ~isdir(f, path)
    THEN Returned([f EXCEPT ![path] = RegularFile(text)])
    ELSE Raised(f)

-----------------------------------------------------------------------------
(* The string work of restructure_project *)

\* line 42; -1 is the ValueError
class_start(text, class_name) == index(text, kw_class \o <<" ">> \o class_name, 0)

\* class_end searching from start instead of start + 1
class_end_from_start(text, start) ==
    IF contains(Slice(text, start, Len(text)), kw_class)
    THEN index(text, kw_class, start)
    ELSE Len(text)

\* line 43; Len(text) is the slice bound None
class_end(text, start) ==
    IF contains(Slice(text, start + 1, Len(text)), kw_class)
    THEN index(text, kw_class, start + 1)
    ELSE Len(text)

\* line 44
class_content(text, class_name) ==
    LET start == class_start(text, class_name)
    IN  strip(Slice(text, start, class_end(text, start)))

\* updated_content cutting at the last occurrence of the anchor (str.rindex)
updated_content_rindex(imports, text, anchor) ==
    LET hits == {k \in 0..(Len(text) - Len(anchor)) : OccursAt(text, anchor, k)}
        last == CHOOSE k \in hits : \A h \in hits : h <= k
    IN  imports \o Slice(text, last, Len(text))

\* lines 83 and 98: imports + text[text.index(anchor):]
updated_content(imports, text, anchor) ==
    imports \o Slice(text, index(text, anchor, 0), Len(text))

-----------------------------------------------------------------------------
(* Control flow of restructure_project, lines 15-101 *)

StatementGroups ==
    << "create_directory", "move_file", "read", "split", "input_data",
       "init_files", "calculator", "test_calculator", "print" >>

\* number of statements in each group
GroupSize(g) ==
    CASE g = "create_directory" -> Len(dirs)
      [] g = "move_file" -> Len(moves)
      [] g = "split" -> Len(class_files)
      [] g = "init_files" -> Len(init_files)
      [] OTHER -> 1

GroupIndex(g) == CHOOSE k \in DOMAIN StatementGroups : StatementGroups[k] = g

\* Advance returning to the print right after calculator.py is rewritten
Advance_skips_test(g, k) ==
    IF k < GroupSize(g) THEN [pc |-> g, i |-> k + 1]
    ELSE IF g = "print" THEN [pc |-> "return", i |-> 1]
    ELSE IF g = "calculator" THEN [pc |-> "print", i |-> 1]
    ELSE [pc |-> StatementGroups[GroupIndex(g) + 1], i |-> 1]

\* the statement after statement k of group g; "return" after the last
Advance(g, k) ==
    IF k < GroupSize(g) THEN [pc |-> g, i |-> k + 1]
    ELSE IF g = "print" THEN [pc |-> "return", i |-> 1]
    ELSE [pc |-> StatementGroups[GroupIndex(g) + 1], i |-> 1]

\* The statement at pc completes and leaves the working directory f.
Completes(f) ==
    /\ fs' = f
    /\ pc' = Advance(pc, i).pc
    /\ i' = Advance(pc, i).i
    /\ status' = IF Advance(pc, i).pc = "return" THEN "done" ELSE "running"
    /\ log' = Append(log, <<pc, i>>)

\* Raises with a cleanup handler that puts the working directory back
Raises_rollback(f) ==
    /\ fs' = fsAtStart
    /\ status' = "failed"
    /\ UNCHANGED <<pc, i, log>>

\* The statement at pc raises, leaving the working directory f: nothing
\* catches the exception and the process ends there.
Raises(f) ==
    /\ fs' = f
    /\ status' = "failed"
    /\ UNCHANGED <<pc, i, log>>

Step(r) == IF r.ok THEN Completes(r.fs) ELSE Raises(r.fs)

At(g) == status = "running" /\ pc = g

Frame == UNCHANGED <<run, restores, fsAtStart, prev, between>>

-----------------------------------------------------------------------------
(* Initial working directories *)

\* What may sit at the six directory paths before the first run: nothing,
\* the directories themselves, or a regular file in the way.  The paths the
\* script writes files to start empty; a later run finds them as the
\* earlier run left them.
InitialDirs ==
    { [p \in DirPaths |-> "none"],
      [p \in DirPaths |-> "dir"],
      [p \in DirPaths |-> IF p = "tests" THEN "file" ELSE "none"],
      [p \in DirPaths |-> IF p = "link_budget_calculator" THEN "file" ELSE "none"],
      [p \in DirPaths |-> IF p = "link_budget_calculator" THEN "dir"
                          ELSE IF p = "link_budget_calculator/satellite" THEN "file"
                          ELSE "none"] }

\* the contents a source path may hold
SourceFiles(p) ==
    CASE p = "link-budget-demo.py" -> CalculatorFiles
      [] p = "input_data.py" -> InputDataFiles
      [] p = "test_link_budget_demo.py" -> TestFiles

\* a source path holds one of its files or nothing
SourceEntries(p) == {RegularFile(text) : text \in SourceFiles(p)} \cup {Absent}

NoRun == [status |-> "idle", pc |-> "none", i |-> 0, restored |-> FALSE]

Init ==
    /\ \E d \in InitialDirs :
       \E calc \in SourceEntries("link-budget-demo.py") :
       \E inp \in SourceEntries("input_data.py") :
       \E test \in SourceEntries("test_link_budget_demo.py") :
          fs = [p \in Paths |->
                  CASE p \in DirPaths -> [kind |-> d[p], data |-> <<>>]
                    [] p = "link-budget-demo.py" -> calc
                    [] p = "input_data.py" -> inp
                    [] p = "test_link_budget_demo.py" -> test
                    [] OTHER -> Absent]
    /\ status = "idle"
    /\ pc = "none"
    /\ i = 0
    /\ content = <<>>
    /\ stdout = <<>>
    /\ run = 0
    /\ restores = 0
    /\ log = <<>>
    /\ fsAtStart = fs
    /\ prev = NoRun
    /\ between = FALSE

-----------------------------------------------------------------------------
(* Actions *)

\* lines 103-104: the script is started (again) in the working directory
Main ==
    /\ status \in {"idle", "done", "failed"}
    /\ run < MaxRuns
    /\ run' = run + 1
    /\ status' = "running"
    /\ pc' = StatementGroups[1]
    /\ i' = 1
    /\ content' = <<>>
    /\ stdout' = <<>>
    /\ log' = <<>>
    /\ fsAtStart' = fs
    /\ prev' = [status |-> status, pc |-> pc, i |-> i, restored |-> between]
    /\ between' = FALSE
    /\ UNCHANGED <<fs, restores>>

\* lines 17-22
CreateDirectories ==
    /\ At("create_directory")
    /\ Step(create_directory(fs, dirs[i]))
    /\ UNCHANGED <<content, stdout>>
    /\ Frame

\* lines 25-27
MoveFiles ==
    /\ At("move_file")
    /\ Step(move_file(fs, moves[i].src, moves[i].dest))
    /\ UNCHANGED <<content, stdout>>
    /\ Frame

\* lines 30-31
ReadInputData ==
    /\ At("read")
    /\ IF isfile(fs, "link_budget_calculator/input_data.py")
       THEN /\ content' = fs["link_budget_calculator/input_data.py"].data
            /\ Completes(fs)
       ELSE /\ Raises(fs)
            /\ UNCHANGED content
    /\ UNCHANGED stdout
    /\ Frame

\* lines 41-45, one iteration of the loop
SplitClasses ==
    /\ At("split")
    /\ LET class_name == class_files[i].class_name
           file_path == class_files[i].file_path
       IN  IF class_start(content, class_name) = -1
           THEN Raises(fs)
           ELSE Step(create_file(fs, file_path, class_content(content, class_name)))
    /\ UNCHANGED <<content, stdout>>
    /\ Frame

\* lines 48-60
UpdateInputData ==
    /\ At("input_data")
    /\ Step(create_file(fs, "link_budget_calculator/input_data.py", input_data_content))
    /\ UNCHANGED <<content, stdout>>
    /\ Frame

\* lines 70-71, one iteration of the loop
CreateInitFiles ==
    /\ At("init_files")
    /\ Step(create_file(fs, init_files[i], <<>>))
    /\ UNCHANGED <<content, stdout>>
    /\ Frame

\* lines 74-84 and 87-99: read the file, cut at the anchor, write it back
UpdateImports(path, imports, anchor) ==
    IF ~isfile(fs, path) \/ index(fs[path].data, anchor, 0) = -1
    THEN Raises(fs)
    ELSE Step(create_file(fs, path, updated_content(imports, fs[path].data, anchor)))

\* lines 74-84
UpdateCalculator ==
    /\ At("calculator")
    /\ UpdateImports("link_budget_calculator/calculator.py", updated_imports, anchor_calculator)
    /\ UNCHANGED <<content, stdout>>
    /\ Frame

\* lines 87-99
UpdateTestCalculator ==
    /\ At("test_calculator")
    /\ UpdateImports("tests/test_calculator.py", updated_test_imports, anchor_test)
    /\ UNCHANGED <<content, stdout>>
    /\ Frame

\* line 101
PrintSuccess ==
    /\ At("print")
    /\ stdout' = Append(stdout, success_message)
    /\ Completes(fs)
    /\ UNCHANGED content
    /\ Frame

\* Between two runs the user puts a missing source file back in place.
RestoreSource ==
    /\ status \in {"done", "failed"}
    /\ restores < MaxRestores
    /\ \E p \in SourcePaths :
          /\ ~exists(fs, p)
          /\ \E text \in SourceFiles(p) : fs' = [fs EXCEPT ![p] = RegularFile(text)]
    /\ restores' = restores + 1
    /\ between' = TRUE
    /\ UNCHANGED <<status, pc, i, content, stdout, run, log, fsAtStart, prev>>

Next ==
    \/ Main
    \/ CreateDirectories
    \/ MoveFiles
    \/ ReadInputData
    \/ SplitClasses
    \/ UpdateInputData
    \/ CreateInitFiles
    \/ UpdateCalculator
    \/ UpdateTestCalculator
    \/ PrintSuccess
    \/ RestoreSource

Spec == Init /\ [][Next]_vars


-----------------------------------------------------------------------------
(* Properties *)

\* the statements of restructure_project in source order
Statements(g, n) == [k \in 1..n |-> <<g, k>>]

ProgramOrder ==
    Statements("create_directory", 6) \o Statements("move_file", 3)
        \o Statements("read", 1) \o Statements("split", 4)
        \o Statements("input_data", 1) \o Statements("init_files", 5)
        \o Statements("calculator", 1) \o Statements("test_calculator", 1)
        \o Statements("print", 1)

Completed(g, k) == \E n \in DOMAIN log : log[n] = <<g, k>>

Occurs(text, sub) == \E k \in 0..Len(text) : OccursAt(text, sub, k)

\* f holds the three source files, each with the headers and anchors the
\* script looks for
SourcesAsExpected(f) ==
    /\ \A p \in SourcePaths : isfile(f, p)
    /\ \A k \in DOMAIN class_files :
          Occurs(f["input_data.py"].data, kw_class \o <<" ">> \o class_files[k].class_name)
    /\ Occurs(f["link-budget-demo.py"].data, anchor_calculator)
    /\ Occurs(f["test_link_budget_demo.py"].data, anchor_test)

\* no file of the new layout exists yet and no directory path is taken by a file
NoTargetYet(f) ==
    /\ \A p \in TargetPaths : ~exists(f, p)
    /\ \A p \in DirPaths : ~isfile(f, p)

\* the layout: six directories, fourteen files, and nothing at the old paths
LayoutProduced(f) ==
    /\ \A p \in DirPaths : isdir(f, p)
    /\ \A p \in Paths : isfile(f, p) <=> p \in TargetPaths
    /\ \A p \in SourcePaths : ~exists(f, p)

\* C1: a run that starts with the expected source files and no target path
\* in place and completes leaves exactly the six directories and fourteen
\* files of the layout, and nothing at the three old source paths.
C1_LayoutAfterRun ==
    (status = "done" /\ ~between /\ SourcesAsExpected(fsAtStart) /\ NoTargetYet(fsAtStart))
        => LayoutProduced(fs)

C1_Witness ==
    /\ status = "done"
    /\ ~between
    /\ SourcesAsExpected(fsAtStart)
    /\ NoTargetYet(fsAtStart)
    /\ \A p \in DirPaths : ~exists(fsAtStart, p)

\* the current run was started directly after a run that completed, with no
\* source file put back in between
RerunAfterSuccess == run >= 2 /\ prev.status = "done" /\ ~prev.restored

\* C2: in a run started directly after a successful run, every
\* create_directory call returns without error and changes nothing, and the
\* run fails at a move_file call whose source is gone.
C2_SecondRun ==
    /\ [][(RerunAfterSuccess /\ At("create_directory"))
             => (fs' = fs /\ status' = "running" /\ log' = Append(log, <<pc, i>>))]_vars
    /\ [](RerunAfterSuccess =>
             /\ status # "done"
             /\ status = "failed" => (pc = "move_file" /\ ~exists(fsAtStart, moves[i].src)))

C2_Witness ==
    /\ RerunAfterSuccess
    /\ status = "failed"
    /\ pc = "move_file"
    /\ \A k \in DOMAIN dirs : Completed("create_directory", k)

\* C10: a run started directly after a successful run leaves the working
\* directory as it found it: it fails at the first move_file, and every
\* directory and file is then what it was when the run started.
C10_SecondRunChangesNothing ==
    (RerunAfterSuccess /\ ~between) =>
        /\ fs = fsAtStart
        /\ status # "done"
        /\ status = "failed" => (pc = "move_file" /\ i = 1)

C10_Witness ==
    /\ RerunAfterSuccess
    /\ ~between
    /\ status = "failed"
    /\ fs = fsAtStart
    /\ LayoutProduced(fs)
    /\ fs["link_budget_calculator/input_data.py"].data = input_data_content

\* the text of the constructor's signature line
ConstructorSignature ==
    <<"d","e","f"," ","_","_","i","n","i","t","_","_","(","s","e","l","f",","," ">>
        \o <<"s","a","t","e","l","l","i","t","e",","," ">>
        \o <<"a","n","t","e","n","n","a",","," ">>
        \o <<"r","e","c","e","i","v","e","r","_","s","t","a","t","i","o","n",","," ">>
        \o <<"l","i","n","k","_","p","a","r","a","m","s",")",":">>

\* the number of lines of a text that start with `prefix`
LinesStarting(text, prefix) ==
    Cardinality({k \in 0..Len(text) :
                    /\ OccursAt(text, prefix, k)
                    /\ (k = 0 \/ text[k] = "\n")})

\* the template: four relative imports, class InputData, the constructor
TemplateShape ==
    /\ LinesStarting(input_data_content, <<"f","r","o","m"," ",".">>) = 4
    /\ Occurs(input_data_content, <<"\n">> \o kw_class \o <<" ","I","n","p","u","t","D","a","t","a",":","\n">>)
    /\ Occurs(input_data_content, ConstructorSignature)

\* C3: whatever the relocated input_data file held, once the aggregator
\* statement has run link_budget_calculator/input_data.py holds exactly the
\* fixed template (four import lines, then class InputData whose constructor
\* takes satellite, antenna, receiver_station, link_params in that order),
\* and the statement itself never raises.
C3_AggregatorIsTemplate ==
    /\ Completed("input_data", 1) =>
          fs["link_budget_calculator/input_data.py"] = RegularFile(input_data_content)
    /\ ~(status = "failed" /\ pc = "input_data")
    /\ TemplateShape

C3_Witness ==
    /\ Completed("input_data", 1)
    /\ content = buf_reordered
    /\ content # input_data_content
    /\ fs["link_budget_calculator/input_data.py"].data = input_data_content

\* the offset of the first occurrence of sub in text is k
FirstOccurrence(text, sub, k) ==
    /\ OccursAt(text, sub, k)
    /\ \A j \in 0..(k - 1) : ~OccursAt(text, sub, j)

\* what the import-header rewriter at `path` does in one step
RewriterStep(path, imports, anchor) ==
    LET text == fs[path].data
    IN  IF Occurs(text, anchor)
        THEN /\ status' # "failed"
             /\ \E k \in 0..Len(text) :
                   /\ FirstOccurrence(text, anchor, k)
                   /\ fs' = [fs EXCEPT ![path] =
                                RegularFile(imports \o SubSeq(text, k + 1, Len(text)))]
        ELSE /\ status' = "failed"
             /\ fs' = fs

\* C4: each import-header rewrite (calculator.py cut at 'class Satellite',
\* test_calculator.py cut at 'class TestLinkBudgetCalculator') either finds
\* the anchor and replaces the file by the import block followed by the old
\* text from the anchor's first occurrence on, or finds no anchor and fails
\* leaving the file, and everything else, untouched.
C4_ImportHeaderRewrite ==
    [][/\ At("calculator") =>
            RewriterStep("link_budget_calculator/calculator.py", updated_imports, anchor_calculator)
       /\ At("test_calculator") =>
            RewriterStep("tests/test_calculator.py", updated_test_imports, anchor_test)]_vars

C4_Witness ==
    /\ status = "failed"
    /\ pc = "test_calculator"
    /\ ~between
    /\ fs["tests/test_calculator.py"].data = test_no_anchor
    /\ fsAtStart["link-budget-demo.py"].data = calc_twice
    /\ fs["link_budget_calculator/calculator.py"].data
          = updated_imports \o SubSeq(calc_twice, 3, Len(calc_twice))

\* r is text without its leading and trailing whitespace
Trimmed(text, r) ==
    \E a \in 1..(Len(text) + 1) : \E b \in 0..Len(text) :
        /\ r = SubSeq(text, a, b)
        /\ \A k \in 1..(a - 1) : text[k] \in Whitespace
        /\ \A k \in (b + 1)..Len(text) : text[k] \in Whitespace
        /\ r # <<>> => (r[1] \notin Whitespace /\ r[Len(r)] \notin Whitespace)

\* r is what the class extractor is to write for class_name: from the first
\* 'class <class_name>' up to the next 'class' after that position, or to
\* the end of the text, trimmed
Extracted(text, class_name, r) ==
    \E s \in 0..Len(text) :
        /\ FirstOccurrence(text, kw_class \o <<" ">> \o class_name, s)
        /\ LET later == {k \in (s + 1)..Len(text) : OccursAt(text, kw_class, k)}
               e == IF later = {} THEN Len(text)
                    ELSE CHOOSE k \in later : \A h \in later : k <= h
           IN  Trimmed(SubSeq(text, s + 1, e), r)

\* the extractor on the two sample buffers
ExtractorExamples ==
    /\ class_content(buf_AB, <<"A">>) = <<"c","l","a","s","s"," ","A","\n","b","o","d","y","_","a">>
    /\ class_content(buf_AB, <<"B">>) = <<"c","l","a","s","s"," ","B","\n","b","o","d","y","_","b">>
    /\ class_content(buf_A_comment_B, <<"A">>)
          = <<"c","l","a","s","s"," ","A","\n","b","o","d","y","_","a"," ","#">>

\* C5: every class file the splitting loop has written holds the slice of
\* the buffer from the first 'class <ClassName>' to the next 'class' after
\* it (or to the end), trimmed; "class A\nbody_a\nclass B\nbody_b\n" gives
\* "class A\nbody_a" and "class B\nbody_b", and a 'class' inside a comment
\* of A's body cuts A's text at that comment.
C5_ClassExtractor ==
    /\ \A k \in DOMAIN class_files :
          Completed("split", k) =>
              /\ isfile(fs, class_files[k].file_path)
              /\ Extracted(content, class_files[k].class_name, fs[class_files[k].file_path].data)
    /\ ExtractorExamples

C5_Witness ==
    /\ Completed("split", 4)
    /\ content = buf_comment
    /\ fs["link_budget_calculator/satellite/inputs.py"].data
          = kw_class \o <<" ">> \o SatelliteInputs \o <<":","\n"," "," "," "," ","#">>

\* C6: the success message is printed once, by a run that has completed
\* every statement of the six steps, and a run that failed has printed
\* nothing.
C6_SuccessMessage ==
    /\ stdout \in {<<>>, <<success_message>>}
    /\ stdout = <<success_message>> <=> status = "done"
    /\ stdout # <<>> => log = ProgramOrder
    /\ status = "failed" => stdout = <<>>

C6_Witness ==
    /\ status = "done"
    /\ stdout = <<success_message>>
    /\ Completed("test_calculator", 1)

\* C7: the statements run in source order, none twice and none skipped; the
\* statement that fails changes nothing and nothing runs after it, so the
\* working directory stays as the completed statements left it.  A class
\* name missing from the buffer stops the run with the three files moved,
\* the earlier classes written, and the aggregator, the marker files and the
\* import headers not touched.
C7_OrderAndHalt ==
    /\ [](/\ Len(log) <= Len(ProgramOrder)
          /\ log = SubSeq(ProgramOrder, 1, Len(log))
          /\ status \in {"running", "failed"} => <<pc, i>> = ProgramOrder[Len(log) + 1])
    /\ [][(status = "running" /\ status' = "failed") => (fs' = fs /\ log' = log)]_vars
    /\ [][(status = "failed" /\ run' = run) =>
             (status' = "failed" /\ log' = log /\ (fs' = fs \/ restores' = restores + 1))]_vars
    /\ []((status = "failed" /\ pc = "split" /\ ~between) =>
             /\ \A k \in DOMAIN moves :
                   /\ ~exists(fs, moves[k].src)
                   /\ fs[moves[k].dest] = fsAtStart[moves[k].src]
             /\ \A k \in DOMAIN class_files :
                   IF k < i
                   THEN Extracted(content, class_files[k].class_name,
                                  fs[class_files[k].file_path].data)
                   ELSE fs[class_files[k].file_path] = fsAtStart[class_files[k].file_path]
             /\ \A p \in Range(init_files) : fs[p] = fsAtStart[p])

C7_Witness ==
    /\ status = "failed"
    /\ pc = "split"
    /\ i = 2
    /\ ~between
    /\ content = buf_no_antenna
    /\ isfile(fs, "link_budget_calculator/satellite/inputs.py")
    /\ fs["link_budget_calculator/input_data.py"].data = buf_no_antenna
    /\ ~exists(fs, "link_budget_calculator/__init__.py")

\* C8 as claimed: create_directory creates a missing directory, leaves an
\* existing directory alone without error, and raises when a regular file
\* is at the path.
C8_Original ==
    [][At("create_directory") =>
          CASE fs[dirs[i]].kind = "dir" -> (fs' = fs /\ status' # "failed")
            [] fs[dirs[i]].kind = "file" -> status' = "failed"
            [] fs[dirs[i]].kind = "none" /\ isdir(fs, dirname(dirs[i])) ->
                  (fs' = [fs EXCEPT ![dirs[i]] = Directory] /\ status' # "failed")
            [] OTHER -> TRUE]_vars

\* C8: create_directory creates the directory when nothing is at the path
\* and the parent is a directory; it returns without error and changes
\* nothing when anything is at the path, a directory or a regular file; it
\* raises only when the parent is not a directory.  A regular file at a
\* directory path therefore fails a later statement, never this call for
\* that path, and such a run does not complete.
C8_CreateDirectory ==
    /\ [][At("create_directory") =>
             CASE fs[dirs[i]].kind \in {"dir", "file"} -> (fs' = fs /\ status' # "failed")
               [] fs[dirs[i]].kind = "none" /\ isdir(fs, dirname(dirs[i])) ->
                     (fs' = [fs EXCEPT ![dirs[i]] = Directory] /\ status' # "failed")
               [] fs[dirs[i]].kind = "none" /\ isfile(fs, dirname(dirs[i])) ->
                     (fs' = fs /\ status' = "failed")
               [] OTHER -> TRUE]_vars
    /\ [](status = "done" => \A p \in DirPaths : ~isfile(fsAtStart, p))

C8_Witness ==
    /\ Completed("create_directory", 6)
    /\ isfile(fs, "tests")
    /\ status = "failed"
    /\ pc = "move_file"
    /\ i = 3

\* the run r ended with the first move_file raising
FailedAtFirstMove(r) == r.status = "failed" /\ r.pc = "move_file" /\ r.i = 1

\* C9 as claimed: after a run that failed between the directory creation and
\* the first move, no re-run succeeds (the model has no clean-up step).
C9_Original == (run >= 2 /\ FailedAtFirstMove(prev)) => status # "done"

\* C9: a run that fails at the first move_file leaves every directory path
\* occupied (by a new directory where nothing was) and nothing else changed;
\* a re-run needs no clean-up: its create_directory calls return without
\* error and change nothing, and once the three source files are in place
\* with their class headers and anchors (and no directory path is taken by
\* a regular file) it completes.
C9_RerunAfterFailedMove ==
    /\ (status = "failed" /\ pc = "move_file" /\ i = 1 /\ ~between) =>
          /\ \A p \in DirPaths :
                fs[p] = IF exists(fsAtStart, p) THEN fsAtStart[p] ELSE Directory
          /\ \A p \in Paths \ DirPaths : fs[p] = fsAtStart[p]
    /\ (run >= 2 /\ FailedAtFirstMove(prev)) =>
          /\ pc = "create_directory" => (status = "running" /\ fs = fsAtStart)
          /\ (SourcesAsExpected(fsAtStart) /\ \A p \in DirPaths : ~isfile(fsAtStart, p))
                => status # "failed"

C9_Witness ==
    /\ run >= 2
    /\ FailedAtFirstMove(prev)
    /\ prev.restored
    /\ status = "done"
    /\ ~between
    /\ LayoutProduced(fs)
====
